---- MODULE Spec2Model ----
(***************************************************************************)
(* SQLHistorian (historian.py) over DbDriver (basedb.py).                  *)
(*                                                                         *)
(* The publish context runs publish_to_historian one statement at a time   *)
(* on the background handle bg_thread_dbutils; the query context runs      *)
(* query_historian and query_topic_list against the catalog cache and the  *)
(* committed store.  The SQL backend is the environment: every call into   *)
(* it (cursor creation, connect, execute, commit, rollback) may succeed or *)
(* raise, and the id it assigns to a new topic row is either one past the  *)
(* largest visible id or one past the largest id it ever assigned.         *)
(***************************************************************************)
EXTENDS Integers, Sequences, FiniteSets, TLC

\* ------------------------------------------------------------------ bounds

\* Records accepted over a whole run (all batches together).
MaxRecords == 3
\* The same, where the run also has queries.
MaxSteadyRecords == 2
\* Physical connections the connect factory hands out over a whole run.
MaxConnects == 2
\* Aggregate rows the aggregation agent stores over a whole run.
MaxAggregates == 2

\* ------------------------------------------------------------------ inputs

Names == {"A", "a", "B"}
EmptyMeta == {}
MetaC == {<<"unit", "C">>}
Metas == {EmptyMeta, MetaC}

\* str.lower() on the topic names and aggregation types of the model.
Lower(s) ==
    CASE s = "A" -> "a"
      [] s = "B" -> "b"
      [] s = "AVG" -> "avg"
      [] OTHER -> s

\* Python's None, where the code holds a connection or a topic id.
None == 0
\* Python's None, where the code holds a display name.
NoName == "None"

\* jsonapi.dumps of a metadata mapping or of a data value, and its inverse.
JsonDumps(x) == <<"json", x>>
JsonLoads(d) == d[2]
\* SQL NULL in the metadata column of the topics table.
NullDoc == <<"null", {}>>

\* ------------------------------------------------------------- python dicts

\* dict.get(key, default)
Get(map, key, default) == IF key \in DOMAIN map THEN map[key] ELSE default

\* map[key] = value
Put(map, key, value) ==
    [x \in DOMAIN map \cup {key} |-> IF x = key THEN value ELSE map[x]]

\* map.update(other)
Update(map, other) ==
    [x \in DOMAIN map \cup DOMAIN other |->
        IF x \in DOMAIN other THEN other[x] ELSE map[x]]

EmptyMap == [x \in {} |-> 0]

SetMax(S) == IF S = {} THEN 0 ELSE CHOOSE m \in S : \A x \in S : x <= m

VARIABLES
    colocated,          \* topics_table = meta_table
    topic_id_map,       \* key -> topic id
    topic_name_map,     \* key -> display name
    topic_meta,         \* topic id -> metadata
    agg_topic_id_map,   \* <<key, agg_type, agg_period>> -> aggregate topic id
    store,              \* committed tables: topics, meta, data
    agg_topics,         \* committed aggregate-topics table
    agg_data,           \* committed rows of the aggregate table avg_1h
    bg,                 \* bg_thread_dbutils: connection, closed, open transaction
    main,               \* main_thread_dbutils: connection, closed, open transaction
    connects,           \* physical connections made so far
    idSeq,              \* largest topic id the backend ever assigned
    taken,              \* records taken from publish batches so far
    pc,                 \* position of the publish context
    remaining,          \* records of to_publish_list still to come
    cur,                \* the record being processed and the loop's locals
    published,          \* the local counter of publish_to_historian
    exc,                \* first exception raised / exception given to the caller
    log,                \* calls made in the current invocation, in order
    batch,              \* records of the current invocation taken so far
    prevRec,            \* last record that reached the data insert
    entry,              \* the committed store at entry of the invocation
    q,                  \* what the last call of the query context saw and returned
    call,               \* the last call made on a handle directly, and its outcome
    agent               \* the aggregation agent's handle and its uncommitted rows

vars == <<colocated, topic_id_map, topic_name_map, topic_meta, agg_topic_id_map,
          store, agg_topics, agg_data, bg, main, connects, idSeq, taken, pc,
          remaining, cur, published, exc, log, batch, prevRec, entry, q, call,
          agent>>

\* --------------------------------------------------------- the SQL backend

EmptyStore == [topics |-> {}, meta |-> EmptyMap, data |-> <<>>]

\* One parameterised statement: the query text a dialect generates and its
\* arguments.
Stmt(op, id, topic, doc, ts) ==
    [op |-> op, id |-> id, topic |-> topic, doc |-> doc, ts |-> ts]

\* The effect of one statement on the tables a connection sees.
Apply(stmt, t) ==
    CASE stmt.op = "insert_topic" ->
            [t EXCEPT !.topics = @ \cup
                {[id |-> stmt.id, name |-> stmt.topic, meta |-> NullDoc]}]
      [] stmt.op = "insert_topic_and_meta" ->
            [t EXCEPT !.topics = @ \cup
                {[id |-> stmt.id, name |-> stmt.topic, meta |-> stmt.doc]}]
      [] stmt.op = "update_topic" ->
            [t EXCEPT !.topics =
                {IF r.id = stmt.id THEN [r EXCEPT !.name = stmt.topic] ELSE r
                    : r \in @}]
      [] stmt.op = "update_topic_and_meta" ->
            [t EXCEPT !.topics =
                {IF r.id = stmt.id
                    THEN [r EXCEPT !.name = stmt.topic, !.meta = stmt.doc]
                    ELSE r : r \in @}]
      [] stmt.op = "insert_meta" ->
            [t EXCEPT !.meta = Put(@, stmt.id, stmt.doc)]
      [] stmt.op = "update_meta" ->
            [t EXCEPT !.topics =
                {IF r.id = stmt.id THEN [r EXCEPT !.meta = stmt.doc] ELSE r
                    : r \in @}]
      [] stmt.op = "insert_data" ->
            [t EXCEPT !.data = Append(@, <<stmt.ts, stmt.id, stmt.doc>>)]
      [] OTHER -> t

\* cursor.lastrowid after a topic insert: the backend numbers the new row one
\* past the largest id the connection sees ("max") or one past the largest id
\* it ever assigned, rolled back or not ("seq").
LastRowId(t, pick) ==
    IF pick = "max" THEN SetMax({r.id : r \in t.topics}) + 1 ELSE idSeq + 1

\* get_topic_map(): key -> id and key -> name, from the topics table.
GetTopicIdMap(t) ==
    [k \in {Lower(r.name) : r \in t.topics} |->
        (CHOOSE r \in t.topics : Lower(r.name) = k).id]

GetTopicNameMap(t) ==
    [k \in {Lower(r.name) : r \in t.topics} |->
        (CHOOSE r \in t.topics : Lower(r.name) = k).name]

\* get_topic_meta_map(): id -> metadata, from the metadata column of the topics
\* table when co-located, else from the metadata table.
GetTopicMetaMap(t) ==
    IF colocated
    THEN [i \in {r.id : r \in {x \in t.topics : x.meta # NullDoc}} |->
            JsonLoads((CHOOSE r \in t.topics : r.id = i /\ r.meta # NullDoc).meta)]
    ELSE [i \in DOMAIN t.meta |-> JsonLoads(t.meta[i])]

\* get_agg_topic_map(): <<key, agg_type, agg_period>> -> aggregate topic id.
GetAggTopicMap ==
    [k \in {<<Lower(r.name), r.agg_type, r.agg_period>> : r \in agg_topics} |->
        (CHOOSE r \in agg_topics :
            <<Lower(r.name), r.agg_type, r.agg_period>> = k).id]

\* What the backend may do while the handle runs one statement: whether a
\* cursor can be made on the existing connection, what the connect factory
\* does, whether a cursor can be made on a new connection, and whether the
\* statement executes.
StmtEnvs ==
    {e \in [cursor_ok : BOOLEAN, connect : {"ok", "raises", "none"},
            new_cursor_ok : BOOLEAN, execute_ok : BOOLEAN] :
        e.connect = "ok" => connects < MaxConnects}

\* How the backend numbers a new topic row.
RowIdPicks == {"max", "seq"}

\* What the backend may do when asked to end a transaction: whether commit
\* goes through, whether rollback goes through, and whether a rollback that
\* raised has discarded the transaction all the same.
EndEnvs == [commit_ok : BOOLEAN, rollback_ok : BOOLEAN, discards : BOOLEAN]

\* ------------------------------------------------------------- DbDriver

\* A handle before its first connection.
NewDriver == [connection |-> None, closed |-> FALSE, txn |-> EmptyStore]

\* cursor() as it would be if a handle whose connection attempt failed kept
\* the connection it held.
CursorKeepingConnection(d, e) ==
    IF d.connection # None /\ ~d.closed /\ e.cursor_ok
    THEN [d |-> d, raised |-> "None", made |-> FALSE, asked |-> FALSE]
    ELSE CASE e.connect = "raises" ->
                [d |-> d, raised |-> "ConnectionError", made |-> FALSE,
                 asked |-> TRUE]
           [] e.connect = "none" ->
                [d |-> d, raised |-> "ConnectionError", made |-> FALSE,
                 asked |-> TRUE]
           [] OTHER ->
                [d |-> [connection |-> connects + 1, closed |-> FALSE,
                        txn |-> store],
                 raised |-> IF e.new_cursor_ok THEN "None" ELSE "CursorError",
                 made |-> TRUE, asked |-> TRUE]

\* cursor() as it would be if it asked the connect factory whatever
\* connection the handle holds.
CursorAlwaysConnecting(d, e) ==
    LET d1 == [connection |-> None, closed |-> FALSE, txn |-> EmptyStore]
    IN  CASE e.connect = "raises" ->
               [d |-> d1, raised |-> "ConnectionError", made |-> FALSE,
                asked |-> TRUE]
          [] e.connect = "none" ->
               [d |-> d1, raised |-> "ConnectionError", made |-> FALSE,
                asked |-> TRUE]
          [] OTHER ->
               [d |-> [connection |-> connects + 1, closed |-> FALSE,
                       txn |-> store],
                raised |-> IF e.new_cursor_ok THEN "None" ELSE "CursorError",
                made |-> TRUE, asked |-> TRUE]

\* cursor() as it would be if what the connect factory raises went to the
\* caller as it is.
CursorNotWrapping(d, e) ==
    IF d.connection # None /\ ~d.closed /\ e.cursor_ok
    THEN [d |-> d, raised |-> "None", made |-> FALSE, asked |-> FALSE]
    ELSE LET d1 == [connection |-> None, closed |-> FALSE, txn |-> EmptyStore]
         IN  CASE e.connect = "raises" ->
                    [d |-> d1, raised |-> "ConnectFailure", made |-> FALSE,
                     asked |-> TRUE]
               [] e.connect = "none" ->
                    [d |-> d1, raised |-> "ConnectionError", made |-> FALSE,
                     asked |-> TRUE]
               [] OTHER ->
                    [d |-> [connection |-> connects + 1, closed |-> FALSE,
                            txn |-> store],
                     raised |-> IF e.new_cursor_ok THEN "None" ELSE "CursorError",
                     made |-> TRUE, asked |-> TRUE]

\* DbDriver.cursor(): the cursor of the live connection, else the connection is
\* dropped and a new one is asked of the connect factory (asked), which makes
\* one (made), raises or returns None.
Cursor(d, e) ==
    IF d.connection # None /\ ~d.closed /\ e.cursor_ok
    THEN [d |-> d, raised |-> "None", made |-> FALSE, asked |-> FALSE]
    ELSE LET d1 == [connection |-> None, closed |-> FALSE, txn |-> EmptyStore]
         IN  CASE e.connect = "raises" ->
                    [d |-> d1, raised |-> "ConnectionError", made |-> FALSE,
                     asked |-> TRUE]
               [] e.connect = "none" ->
                    [d |-> d1, raised |-> "ConnectionError", made |-> FALSE,
                     asked |-> TRUE]
               [] OTHER ->
                    [d |-> [connection |-> connects + 1, closed |-> FALSE,
                            txn |-> store],
                     raised |-> IF e.new_cursor_ok THEN "None" ELSE "CursorError",
                     made |-> TRUE, asked |-> TRUE]

\* DbDriver.execute_stmt(stmt, args, commit=False)
ExecuteStmt(d, e, stmt) ==
    LET c == Cursor(d, e)
    IN  IF c.raised # "None" THEN c
        ELSE IF ~e.execute_ok THEN [c EXCEPT !.raised = "StatementError"]
        ELSE [c EXCEPT !.d.txn = Apply(stmt, @)]

\* DbDriver.insert_meta(topic_id, metadata)
InsertMeta(d, e, topic_id, metadata) ==
    ExecuteStmt(d, e, Stmt("insert_meta", topic_id, "", JsonDumps(metadata), 0))

\* DbDriver.update_meta(topic_id, metadata)
UpdateMeta(d, e, topic_id, metadata) ==
    ExecuteStmt(d, e, Stmt("update_meta", topic_id, "", JsonDumps(metadata), 0))

\* DbDriver.insert_data(ts, topic_id, data)
InsertData(d, e, ts, topic_id, data) ==
    ExecuteStmt(d, e, Stmt("insert_data", topic_id, "", JsonDumps(data), ts))

\* The query insert_topic chooses.
InsertTopicQuery(topic, meta) ==
    IF colocated /\ topic # "" /\ meta # EmptyMeta
    THEN "insert_topic_and_meta" ELSE "insert_topic"

\* DbDriver.insert_topic(topic, metadata=meta): the result also carries the
\* statement issued and cursor.lastrowid.
InsertTopic(d, e, pick, topic, meta) ==
    LET c  == Cursor(d, e)
        op == InsertTopicQuery(topic, meta)
        id == LastRowId(c.d.txn, pick)
        r  == IF c.raised # "None" THEN c
              ELSE IF ~e.execute_ok THEN [c EXCEPT !.raised = "StatementError"]
              ELSE [c EXCEPT !.d.txn =
                        Apply(Stmt(op, id, topic, JsonDumps(meta), 0), @)]
    IN  [d |-> r.d, raised |-> r.raised, made |-> r.made, op |-> op,
         lastrowid |-> id]

\* The query update_topic chooses.
UpdateTopicQuery(topic, meta) ==
    IF colocated /\ topic # "" /\ meta # EmptyMeta
    THEN "update_topic_and_meta" ELSE "update_topic"

\* DbDriver.update_topic(topic, topic_id, metadata=meta); without the keyword
\* argument meta is None, which is as false as the empty mapping.
UpdateTopic(d, e, topic, topic_id, meta) ==
    LET op == UpdateTopicQuery(topic, meta)
        r  == ExecuteStmt(d, e, Stmt(op, topic_id, topic, JsonDumps(meta), 0))
    IN  [d |-> r.d, raised |-> r.raised, made |-> r.made, op |-> op]

\* DbDriver.commit(): True, False, or the backend's commit raises (the
\* lock-contention error is logged and raised again, any other error is not
\* caught).  committed says whether the transaction became durable.
Commit(d, e) ==
    IF d.connection # None
    THEN IF ~d.closed /\ e.commit_ok
         THEN [d |-> d, committed |-> TRUE, returned |-> TRUE,
               raised |-> "None"]
         ELSE [d |-> d, committed |-> FALSE, returned |-> FALSE,
               raised |-> "CommitError"]
    ELSE [d |-> d, committed |-> FALSE, returned |-> FALSE, raised |-> "None"]

\* DbDriver.rollback(): True, False, or the backend's rollback raises; a
\* rollback that raised may or may not have discarded the transaction.
Rollback(d, e) ==
    IF d.connection # None
    THEN IF ~d.closed /\ e.rollback_ok
         THEN [d |-> [d EXCEPT !.txn = store], returned |-> TRUE,
               raised |-> "None"]
         ELSE [d |-> IF e.discards THEN [d EXCEPT !.txn = store] ELSE d,
               returned |-> FALSE, raised |-> "RollbackError"]
    ELSE [d |-> d, returned |-> FALSE, raised |-> "None"]

\* DbDriver.close(): the connection is closed and stays referenced.
Close(d) ==
    IF d.connection # None THEN [d EXCEPT !.closed = TRUE, !.txn = EmptyStore]
    ELSE d

\* What cursor.close() may do: close the cursor, raise an error of the
\* backend's, or raise an exception of a built-in class.
CloseOutcomes == {"ok", "raises", "raises_builtin"}

\* What the backend may do while a handle called directly runs one statement
\* and closes its cursor.
DriverEnvs ==
    {e \in [cursor_ok : BOOLEAN, connect : {"ok", "raises", "none"},
            new_cursor_ok : BOOLEAN, execute_ok : BOOLEAN,
            close : CloseOutcomes] :
        e.connect = "ok" => connects < MaxConnects}

\* closing(obj): obj.close() when the block is left, whatever is being
\* raised; what close() raises escapes in its place when its class is a
\* built-in one and is logged and ignored otherwise.
Closing(raised, close) ==
    IF close = "raises_builtin" THEN "CloseError" ELSE raised

\* DbDriver.execute_stmt(stmt, args, commit=False) with its cursor: made by
\* cursor(), closed through closing().
ExecuteStmtClosing(d, e, stmt) ==
    LET c == Cursor(d, e)
        r == ExecuteStmt(d, e, stmt)
    IN  [d |-> r.d, made |-> r.made, asked |-> r.asked,
         raised |-> IF c.raised # "None" THEN r.raised
                    ELSE Closing(r.raised, e.close),
         cursor |-> c.raised = "None", close_called |-> c.raised = "None",
         handed |-> FALSE]

\* DbDriver.select(query, args, fetch_all) with its cursor: closed by hand
\* when the statement raises, closed through closing() after fetchall(),
\* returned open when fetch_all is false.
SelectClosing(d, e, fetch_all) ==
    LET c == Cursor(d, e)
    IN  IF c.raised # "None"
        THEN [d |-> c.d, made |-> c.made, asked |-> c.asked,
              raised |-> c.raised, cursor |-> FALSE, close_called |-> FALSE,
              handed |-> FALSE]
        ELSE IF ~e.execute_ok
        THEN [d |-> c.d, made |-> c.made, asked |-> c.asked,
              raised |-> IF e.close = "ok" THEN "StatementError"
                         ELSE "CloseError",
              cursor |-> TRUE, close_called |-> TRUE, handed |-> FALSE]
        ELSE IF fetch_all
        THEN [d |-> c.d, made |-> c.made, asked |-> c.asked,
              raised |-> Closing("None", e.close),
              cursor |-> TRUE, close_called |-> TRUE, handed |-> FALSE]
        ELSE [d |-> c.d, made |-> c.made, asked |-> c.asked,
              raised |-> "None", cursor |-> TRUE, close_called |-> FALSE,
              handed |-> TRUE]

\* table_name = agg_type + '_' + period
AggregateTable(agg_type, period) == <<agg_type, "_", period>>

\* insert_aggregate as it would be if it ran its statement with commit=False.
InsertAggregateNoCommit(d, pending, e, ec, row) ==
    LET c    == Cursor(d, e)
        kept == IF c.d.connection = d.connection THEN pending ELSE <<>>
        h    == [c.d EXCEPT !.txn = EmptyStore]
    IN  IF c.raised # "None"
        THEN [d |-> h, pending |-> kept, durable |-> <<>>, made |-> c.made,
              raised |-> c.raised, returned |-> FALSE]
        ELSE IF ~e.execute_ok
        THEN [d |-> h, pending |-> kept, durable |-> <<>>, made |-> c.made,
              raised |-> Closing("StatementError", e.close),
              returned |-> FALSE]
        ELSE [d |-> h, pending |-> Append(kept, row), durable |-> <<>>,
              made |-> c.made, raised |-> Closing("None", e.close),
              returned |-> Closing("None", e.close) = "None"]

\* DbDriver.insert_aggregate(agg_topic_id, agg_type, period, ts, data,
\* topic_ids) on a handle that has aggregate rows pending: execute_stmt with
\* commit=True, then True.  A commit makes durable whatever the connection
\* has pending; rows pending on a connection that was replaced are lost.
InsertAggregate(d, pending, e, ec, row) ==
    LET c    == Cursor(d, e)
        kept == IF c.d.connection = d.connection THEN pending ELSE <<>>
        h    == [c.d EXCEPT !.txn = EmptyStore]
        cm   == Commit(h, ec)
    IN  IF c.raised # "None"
        THEN [d |-> h, pending |-> kept, durable |-> <<>>, made |-> c.made,
              raised |-> c.raised, returned |-> FALSE]
        ELSE IF ~e.execute_ok
        THEN [d |-> h, pending |-> kept, durable |-> <<>>, made |-> c.made,
              raised |-> Closing("StatementError", e.close),
              returned |-> FALSE]
        ELSE IF cm.raised # "None"
        THEN [d |-> h, pending |-> Append(kept, row), durable |-> <<>>,
              made |-> c.made, raised |-> Closing(cm.raised, e.close),
              returned |-> FALSE]
        ELSE [d |-> h, pending |-> <<>>, durable |-> Append(kept, row),
              made |-> c.made, raised |-> Closing("None", e.close),
              returned |-> Closing("None", e.close) = "None"]

\* ------------------------------------------------- SQLHistorian: publishing

NoRecord ==
    [timestamp |-> 0, topic |-> NoName, value |-> 0, meta |-> EmptyMeta,
     lowercase_name |-> NoName, topic_id |-> None, db_topic_name |-> NoName,
     old_meta |-> EmptyMeta, update_topic_meta |-> TRUE]

NoPrev == [topic |-> NoName, meta |-> EmptyMeta]

NoExc == [raised |-> "None", delivered |-> "None"]

NoEntry == [store |-> EmptyStore]

NoQuery ==
    [called |-> FALSE, op |-> "", topic_list |-> {}, topics_meta |-> EmptyMap,
     by_pattern |-> EmptyMap, agg_list |-> {}, topics |-> <<>>, agg_type |-> "",
     topic_ids |-> <<>>, id_name_map |-> EmptyMap, reloads |-> 0,
     queries |-> 0, backend |-> EmptyMap, has_values |-> FALSE,
     has_metadata |-> FALSE, single |-> FALSE, values |-> <<>>,
     by_name |-> EmptyMap, metadata |-> EmptyMeta]

\* The outcome of a direct call: the handle as it was, what was raised and
\* returned, whether the connect factory was asked and made a connection,
\* whether the held connection would make a cursor, whether the statement
\* would execute and what cursor.close() would do, and what became of the
\* cursor of the call.
NoCall ==
    [op |-> "", was |-> NewDriver, raised |-> "None", returned |-> FALSE,
     asked |-> FALSE, made |-> FALSE, cursor |-> FALSE,
     close_called |-> FALSE, handed |-> FALSE, fetch_all |-> FALSE,
     cursor_ok |-> TRUE, execute_ok |-> TRUE, close |-> "ok",
     table |-> <<>>]

\* The handle of the aggregation agent before its first connection.
NewAgent == [d |-> NewDriver, pending |-> <<>>]

\* One call in the log of an invocation: made while record number k was being
\* processed (k = 0 after the loop), on connection conn, ok unless it raised.
Ev(op, id, conn, ok) ==
    [k |-> IF pc \in {"for", "except"} /\ op \in {"commit", "rollback", "report_all_handled"}
           THEN 0 ELSE Len(batch),
     op |-> op, id |-> id, conn |-> conn, ok |-> ok]

\* The lookup key as it would be without lowercasing.
LookupKeyAsGiven(topic) == topic

\* lowercase_name = topic.lower()
LookupKey(topic) == Lower(topic)

\* if old_meta != meta
NeedsMetaWrite(old_meta, meta) == old_meta # meta

\* The choice of the metadata statement as it would be without the
\* update_topic_meta flag.
MetaWriteOpIgnoringFlag(update_topic_meta) ==
    IF ~colocated THEN "insert_meta" ELSE "update_meta"

\* The metadata statement of a record whose metadata changed: the bulk insert
\* into the separate metadata table, the metadata-only update of the topics
\* table, or none when the topic statement carried the metadata.
MetaWriteOp(update_topic_meta) ==
    IF ~colocated THEN "insert_meta"
    ELSE IF update_topic_meta THEN "update_meta"
    ELSE "none"

\* The test of the counter as it would be if it always passed.
HasPublishedAlways(n) == TRUE

\* if published:
HasPublished(n) == n > 0

\* The test of commit's result as it would be if it never passed.
ReportsHandledNever(commit_returned) == FALSE

\* if self.bg_thread_dbutils.commit(): self.report_all_handled()
ReportsHandled(commit_returned) == commit_returned

\* except Exception: rollback(); raise -- what reaches the caller.
Delivered(raised, rollback_raised) ==
    IF rollback_raised # "None" THEN rollback_raised ELSE raised

\* The handle after a call, and the call in the log.
Called(r, op, id) ==
    /\ bg' = r.d
    /\ connects' = connects + (IF r.made THEN 1 ELSE 0)
    /\ log' = Append(log, Ev(op, id, r.d.connection, r.raised = "None"))

\* An exception leaves the try block.
Raised(kind) ==
    /\ pc' = "except"
    /\ exc' = [raised |-> kind, delivered |-> "None"]

Init ==
    /\ colocated \in BOOLEAN
    /\ topic_id_map = EmptyMap
    /\ topic_name_map = EmptyMap
    /\ topic_meta = EmptyMap
    /\ agg_topic_id_map = EmptyMap
    /\ store = EmptyStore
    /\ agg_topics = {}
    /\ agg_data = <<>>
    /\ bg = NewDriver
    /\ main = NewDriver
    /\ connects = 0
    /\ idSeq = 0
    /\ taken = 0
    /\ pc = "setup"
    /\ remaining = 0
    /\ cur = NoRecord
    /\ published = 0
    /\ exc = NoExc
    /\ log = <<>>
    /\ batch = <<>>
    /\ prevRec = NoPrev
    /\ entry = NoEntry
    /\ q = NoQuery
    /\ call = NoCall
    /\ agent = NewAgent

\* historian_setup(): the background handle is created, its first connection
\* made, and the catalog cache loaded from the store.
HistorianSetup ==
    /\ pc = "setup"
    /\ LET r == Cursor(NewDriver,
                       [cursor_ok |-> TRUE, connect |-> "ok",
                        new_cursor_ok |-> TRUE, execute_ok |-> TRUE])
       IN  /\ bg' = r.d
           /\ connects' = connects + 1
           /\ topic_id_map' = Update(topic_id_map, GetTopicIdMap(r.d.txn))
           /\ topic_name_map' = Update(topic_name_map, GetTopicNameMap(r.d.txn))
           /\ agg_topic_id_map' = GetAggTopicMap
           /\ topic_meta' = Update(topic_meta, GetTopicMetaMap(r.d.txn))
    /\ pc' = "idle"
    /\ UNCHANGED <<colocated, store, agg_topics, agg_data, idSeq, taken, remaining, cur,
                   published, exc, log, batch, prevRec, entry, q,
                   main, call, agent>>

\* publish_to_historian(to_publish_list) is entered with a list of n records.
BeginPublish(n) ==
    /\ pc = "idle"
    /\ pc' = "for"
    /\ remaining' = n
    /\ entry' = [store |-> store]
    /\ q' = NoQuery
    /\ UNCHANGED <<colocated, topic_id_map, topic_name_map, topic_meta,
                   agg_topic_id_map, store, agg_topics, agg_data, bg, connects, idSeq,
                   taken, cur, published, exc, log, batch, prevRec,
                   main, call, agent>>

\* for x in to_publish_list: the next record is read and looked up in the cache.
NextRecord(topic, meta) ==
    /\ pc = "for"
    /\ remaining > 0
    /\ LET lowercase_name == LookupKey(topic)
           topic_id == Get(topic_id_map, lowercase_name, None)
       IN  cur' = [timestamp |-> 100 * (taken + 1), topic |-> topic,
                   value |-> taken + 1, meta |-> meta,
                   lowercase_name |-> lowercase_name, topic_id |-> topic_id,
                   db_topic_name |-> Get(topic_name_map, lowercase_name, NoName),
                   old_meta |-> Get(topic_meta, topic_id, EmptyMeta),
                   update_topic_meta |-> TRUE]
    /\ batch' = Append(batch, [timestamp |-> 100 * (taken + 1), topic |-> topic,
                               value |-> taken + 1, meta |-> meta])
    /\ taken' = taken + 1
    /\ remaining' = remaining - 1
    /\ pc' = "topic"
    /\ q' = NoQuery
    /\ UNCHANGED <<colocated, topic_id_map, topic_name_map, topic_meta,
                   agg_topic_id_map, store, agg_topics, agg_data, bg, connects, idSeq,
                   published, exc, log, prevRec, entry,
                   main, call, agent>>

\* if topic_id is None: insert_topic, then the display name is cached.
InsertTopicStep(e, pick) ==
    /\ pc = "topic"
    /\ cur.topic_id = None
    /\ \E r \in {InsertTopic(bg, e, pick, cur.topic, cur.meta)} :
           IF r.raised # "None"
           THEN /\ Called(r, r.op, None)
                /\ Raised(r.raised)
                /\ UNCHANGED <<cur, topic_name_map, idSeq>>
           ELSE /\ Called(r, r.op, r.lastrowid)
                /\ cur' = [cur EXCEPT !.topic_id = r.lastrowid]
                /\ topic_name_map' = Put(topic_name_map, cur.lowercase_name, cur.topic)
                /\ idSeq' = IF r.lastrowid > idSeq THEN r.lastrowid ELSE idSeq
                /\ pc' = "cache_id"
                /\ UNCHANGED exc
    /\ q' = NoQuery
    /\ UNCHANGED <<colocated, topic_id_map, topic_meta, agg_topic_id_map, store,
                   agg_topics, agg_data, taken, remaining, published, batch, prevRec, entry,
                   main, call, agent>>

\* self.topic_id_map[lowercase_name] = topic_id; update_topic_meta = False
CacheTopicId ==
    /\ pc = "cache_id"
    /\ topic_id_map' = Put(topic_id_map, cur.lowercase_name, cur.topic_id)
    /\ cur' = [cur EXCEPT !.update_topic_meta = FALSE]
    /\ pc' = "meta"
    /\ q' = NoQuery
    /\ UNCHANGED <<colocated, topic_name_map, topic_meta, agg_topic_id_map, store,
                   agg_topics, agg_data, bg, connects, idSeq, taken, remaining, published,
                   exc, log, batch, prevRec, entry,
                   main, call, agent>>

\* elif db_topic_name != topic: update_topic, with the metadata when it changed
\* too, then the display name is cached.
UpdateTopicStep(e) ==
    /\ pc = "topic"
    /\ cur.topic_id # None
    /\ cur.db_topic_name # cur.topic
    /\ \E with_meta \in {NeedsMetaWrite(cur.old_meta, cur.meta)} :
       \E r \in {UpdateTopic(bg, e, cur.topic, cur.topic_id,
                             IF with_meta THEN cur.meta ELSE EmptyMeta)} :
           /\ Called(r, r.op, cur.topic_id)
           /\ IF r.raised # "None"
              THEN /\ Raised(r.raised)
                   /\ UNCHANGED <<cur, topic_name_map>>
              ELSE /\ cur' = [cur EXCEPT !.update_topic_meta = ~with_meta]
                   /\ topic_name_map' = Put(topic_name_map, cur.lowercase_name, cur.topic)
                   /\ pc' = "meta"
                   /\ UNCHANGED exc
    /\ q' = NoQuery
    /\ UNCHANGED <<colocated, topic_id_map, topic_meta, agg_topic_id_map, store,
                   agg_topics, agg_data, idSeq, taken, remaining, published, batch,
                   prevRec, entry,
                   main, call, agent>>

\* The topic is cached under the incoming display name: no topic statement.
KeepTopic ==
    /\ pc = "topic"
    /\ cur.topic_id # None
    /\ cur.db_topic_name = cur.topic
    /\ pc' = "meta"
    /\ q' = NoQuery
    /\ UNCHANGED <<colocated, topic_id_map, topic_name_map, topic_meta,
                   agg_topic_id_map, store, agg_topics, agg_data, bg, connects, idSeq,
                   taken, remaining, cur, published, exc, log, batch, prevRec,
                   entry,
                   main, call, agent>>

\* if old_meta != meta, with a metadata statement to issue; then the snapshot
\* is cached.
WriteMetaStep(e) ==
    /\ pc = "meta"
    /\ NeedsMetaWrite(cur.old_meta, cur.meta)
    /\ MetaWriteOp(cur.update_topic_meta) # "none"
    /\ \E op \in {MetaWriteOp(cur.update_topic_meta)} :
       \E r \in {IF op = "insert_meta"
                 THEN InsertMeta(bg, e, cur.topic_id, cur.meta)
                 ELSE UpdateMeta(bg, e, cur.topic_id, cur.meta)} :
           /\ Called(r, op, cur.topic_id)
           /\ IF r.raised # "None"
              THEN /\ Raised(r.raised)
                   /\ UNCHANGED topic_meta
              ELSE /\ topic_meta' = Put(topic_meta, cur.topic_id, cur.meta)
                   /\ pc' = "data"
                   /\ UNCHANGED exc
    /\ q' = NoQuery
    /\ UNCHANGED <<colocated, topic_id_map, topic_name_map, agg_topic_id_map,
                   store, agg_topics, agg_data, idSeq, taken, remaining, cur, published,
                   batch, prevRec, entry,
                   main, call, agent>>

\* if old_meta != meta, the topic statement having carried the metadata: only
\* the snapshot is cached.
CacheMetaStep ==
    /\ pc = "meta"
    /\ NeedsMetaWrite(cur.old_meta, cur.meta)
    /\ MetaWriteOp(cur.update_topic_meta) = "none"
    /\ topic_meta' = Put(topic_meta, cur.topic_id, cur.meta)
    /\ pc' = "data"
    /\ q' = NoQuery
    /\ UNCHANGED <<colocated, topic_id_map, topic_name_map, agg_topic_id_map,
                   store, agg_topics, agg_data, bg, connects, idSeq, taken, remaining, cur,
                   published, exc, log, batch, prevRec, entry,
                   main, call, agent>>

\* The record with unchanged metadata as it would be if the loop went on to
\* the next record at once.
SkipMetaAndData ==
    /\ pc = "meta"
    /\ ~NeedsMetaWrite(cur.old_meta, cur.meta)
    /\ pc' = "for"
    /\ q' = NoQuery
    /\ UNCHANGED <<colocated, topic_id_map, topic_name_map, topic_meta,
                   agg_topic_id_map, store, agg_topics, agg_data, bg, connects, idSeq,
                   taken, remaining, cur, published, exc, log, batch, prevRec,
                   entry,
                   main, call, agent>>

\* old_meta == meta: nothing to write.
SkipMeta ==
    /\ pc = "meta"
    /\ ~NeedsMetaWrite(cur.old_meta, cur.meta)
    /\ pc' = "data"
    /\ q' = NoQuery
    /\ UNCHANGED <<colocated, topic_id_map, topic_name_map, topic_meta,
                   agg_topic_id_map, store, agg_topics, agg_data, bg, connects, idSeq,
                   taken, remaining, cur, published, exc, log, batch, prevRec,
                   entry,
                   main, call, agent>>

\* if insert_data(ts, topic_id, value): published += 1
InsertDataStep(e) ==
    /\ pc = "data"
    /\ \E r \in {InsertData(bg, e, cur.timestamp, cur.topic_id, cur.value)} :
           /\ Called(r, "insert_data", cur.topic_id)
           /\ IF r.raised # "None"
              THEN /\ Raised(r.raised)
                   /\ UNCHANGED published
              ELSE /\ published' = published + 1
                   /\ pc' = "for"
                   /\ UNCHANGED exc
    /\ prevRec' = [topic |-> cur.topic, meta |-> cur.meta]
    /\ q' = NoQuery
    /\ UNCHANGED <<colocated, topic_id_map, topic_name_map, topic_meta,
                   agg_topic_id_map, store, agg_topics, agg_data, idSeq, taken, remaining,
                   cur, batch, entry,
                   main, call, agent>>

\* insert_data(ts, topic_id, value) returns a false value without raising (the
\* insert method is the one bulk_insert() yields, which a driver may
\* replace): the record is not counted and the loop goes on.
DataRefusedStep ==
    /\ pc = "data"
    /\ log' = Append(log, Ev("insert_data_refused", cur.topic_id, bg.connection, TRUE))
    /\ prevRec' = [topic |-> cur.topic, meta |-> cur.meta]
    /\ pc' = "for"
    /\ q' = NoQuery
    /\ UNCHANGED <<colocated, topic_id_map, topic_name_map, topic_meta,
                   agg_topic_id_map, store, agg_topics, agg_data, bg, connects, idSeq,
                   taken, remaining, cur, published, exc, batch, entry,
                   main, call, agent>>

\* if published: commit; report_all_handled if it returned True, else rollback.
CommitStep(e) ==
    /\ pc = "for"
    /\ remaining = 0
    /\ HasPublished(published)
    /\ \E c \in {Commit(bg, e)} :
       \E rb \in {Rollback(c.d, e)} :
       \E ec \in {Ev("commit", None, bg.connection, c.raised = "None" /\ c.returned)} :
           IF c.raised # "None"
           THEN /\ log' = Append(log, ec)
                /\ Raised(c.raised)
                /\ UNCHANGED <<bg, store>>
           ELSE IF ReportsHandled(c.returned)
           THEN /\ log' = log \o <<ec, Ev("report_all_handled", None, bg.connection, TRUE)>>
                /\ store' = IF c.committed THEN c.d.txn ELSE store
                /\ bg' = c.d
                /\ pc' = "return"
                /\ UNCHANGED exc
           ELSE /\ log' = log \o <<ec, Ev("rollback", None, bg.connection, rb.raised = "None")>>
                /\ store' = IF c.committed THEN c.d.txn ELSE store
                /\ bg' = rb.d
                /\ IF rb.raised # "None"
                   THEN Raised(rb.raised)
                   ELSE pc' = "return" /\ UNCHANGED exc
    /\ q' = NoQuery
    /\ UNCHANGED <<colocated, topic_id_map, topic_name_map, topic_meta,
                   agg_topic_id_map, agg_topics, agg_data, connects, idSeq, taken,
                   remaining, cur, published, batch, prevRec, entry,
                   main, call, agent>>

\* else: _log.warning('Unable to publish ...')
NothingPublished ==
    /\ pc = "for"
    /\ remaining = 0
    /\ ~HasPublished(published)
    /\ pc' = "return"
    /\ q' = NoQuery
    /\ UNCHANGED <<colocated, topic_id_map, topic_name_map, topic_meta,
                   agg_topic_id_map, store, agg_topics, agg_data, bg, connects, idSeq,
                   taken, remaining, cur, published, exc, log, batch, prevRec,
                   entry,
                   main, call, agent>>

\* except Exception: self.bg_thread_dbutils.rollback(); raise
Handler(e) ==
    /\ pc = "except"
    /\ \E rb \in {Rollback(bg, e)} :
           /\ bg' = rb.d
           /\ log' = Append(log, Ev("rollback", None, bg.connection, rb.raised = "None"))
           /\ exc' = [exc EXCEPT !.delivered = Delivered(exc.raised, rb.raised)]
    /\ pc' = "return"
    /\ q' = NoQuery
    /\ UNCHANGED <<colocated, topic_id_map, topic_name_map, topic_meta,
                   agg_topic_id_map, store, agg_topics, agg_data, connects, idSeq, taken,
                   remaining, cur, published, batch, prevRec, entry,
                   main, call, agent>>

\* publish_to_historian returns or raises to its caller: its locals are gone.
Return ==
    /\ pc = "return"
    /\ pc' = "idle"
    /\ remaining' = 0
    /\ published' = 0
    /\ cur' = NoRecord
    /\ exc' = NoExc
    /\ log' = <<>>
    /\ batch' = <<>>
    /\ entry' = NoEntry
    /\ q' = NoQuery
    /\ UNCHANGED <<colocated, topic_id_map, topic_name_map, topic_meta,
                   agg_topic_id_map, store, agg_topics, agg_data, bg, connects, idSeq,
                   taken, prevRec,
                   main, call, agent>>

\* The backend marks the connection of the background handle closed (taken
\* where the publish context is between two records or two invocations).
ConnectionClosed ==
    /\ pc \in {"idle", "for"}
    /\ bg.connection # None
    /\ ~bg.closed
    /\ bg' = [bg EXCEPT !.closed = TRUE, !.txn = EmptyStore]
    /\ q' = NoQuery
    /\ UNCHANGED <<colocated, topic_id_map, topic_name_map, topic_meta,
                   agg_topic_id_map, store, agg_topics, agg_data, connects, idSeq, taken,
                   pc, remaining, cur, published, exc, log, batch, prevRec, entry,
                   main, call, agent>>

Publish ==
    \/ \E n \in 0 .. (MaxRecords - taken) : BeginPublish(n)
    \/ \E topic \in Names, meta \in Metas : NextRecord(topic, meta)
    \/ \E e \in StmtEnvs, pick \in RowIdPicks : InsertTopicStep(e, pick)
    \/ CacheTopicId
    \/ \E e \in StmtEnvs : UpdateTopicStep(e)
    \/ KeepTopic
    \/ \E e \in StmtEnvs : WriteMetaStep(e)
    \/ CacheMetaStep
    \/ SkipMeta
    \/ \E e \in StmtEnvs : InsertDataStep(e)
    \/ DataRefusedStep
    \/ \E e \in EndEnvs : CommitStep(e)
    \/ NothingPublished
    \/ \E e \in EndEnvs : Handler(e)
    \/ Return

\* --------------------------------------------------- SQLHistorian: queries

\* The one aggregation period of the model.
AggPeriod == "1h"

\* query_topic_list(): the cached display names.
QueryTopicList == {topic_name_map[k] : k \in DOMAIN topic_name_map}

\* The rows of a sequence in ascending timestamp order, rows of one timestamp
\* in the order given.
RECURSIVE SortByTs(_)
SortByTs(rows) ==
    IF rows = <<>> THEN <<>>
    ELSE LET IsMin(i) == \A j \in 1 .. Len(rows) :
                            \/ rows[i][1] < rows[j][1]
                            \/ (rows[i][1] = rows[j][1] /\ i <= j)
             m == CHOOSE i \in 1 .. Len(rows) : IsMin(i)
         IN  <<rows[m]>> \o
             SortByTs([i \in 1 .. Len(rows) - 1 |->
                        IF i < m THEN rows[i] ELSE rows[i + 1]])

Reverse(rows) == [i \in 1 .. Len(rows) |-> rows[Len(rows) + 1 - i]]

\* The committed rows of one topic id, as (timestamp, value) pairs in the order
\* asked for: raw data, or the aggregate table when an aggregation is named.
TopicRows(topic_id, agg_type, order) ==
    LET Mine(r) == r[2] = topic_id
        mine    == SelectSeq(IF agg_type # "" THEN agg_data ELSE store.data, Mine)
        rows    == SortByTs([i \in 1 .. Len(mine) |->
                                <<mine[i][1], JsonLoads(mine[i][3])>>])
    IN  IF order = "LAST_TO_FIRST" THEN Reverse(rows) ELSE rows

\* DbDriver.query(topic_ids, id_name_map, ...): topic name -> rows.  A dialect
\* may or may not list a topic that has no rows (with_empty).
BackendQuery(topic_ids, id_name_map, agg_type, order, with_empty) ==
    LET ids   == {topic_ids[i] : i \in 1 .. Len(topic_ids)}
        shown == {i \in ids : with_empty \/ TopicRows(i, agg_type, order) # <<>>}
    IN  [n \in {id_name_map[i] : i \in shown} |->
            TopicRows(CHOOSE i \in shown : id_name_map[i] = n, agg_type, order)]

\* multi_topic_query = len(topics_list) > 1
MultiTopicQuery(topics_list) == Len(topics_list) > 1

\* The test of a looked-up id as it would be if every name passed it.
ResolvesAlways(topic_id) == TRUE

\* if topic_id: -- an id of None, like an id of 0, is no id.
Resolves(topic_id) == topic_id # None

\* The test of the aggregate lookup as it would be if a miss were never seen.
MissesAggMapNever(agg_type, key, agg_map) == FALSE

\* The test of the aggregate lookup as it would be if every query saw a miss.
MissesAggMapAlways(agg_type, key, agg_map) == TRUE

\* if agg_type: ... if topic_id is None: -- the triple is not in the map.
MissesAggMap(agg_type, key, agg_map) ==
    agg_type # "" /\ key \notin DOMAIN agg_map

\* The loop over topics_list: each name is resolved to an id through the
\* catalog cache, or through the aggregate map, which is loaded again from the
\* backend when it misses.
RECURSIVE ResolveTopics(_, _, _)
ResolveTopics(topics_list, agg_type, acc) ==
    IF topics_list = <<>> THEN acc
    ELSE LET topic       == Head(topics_list)
             topic_lower == Lower(topic)
             key         == <<topic_lower, Lower(agg_type), AggPeriod>>
             miss        == MissesAggMap(agg_type, key, acc.agg_map)
             agg_map     == IF miss THEN Update(acc.agg_map, GetAggTopicMap)
                            ELSE acc.agg_map
             topic_id    == IF agg_type # "" THEN Get(agg_map, key, None)
                            ELSE Get(topic_id_map, topic_lower, None)
         IN  ResolveTopics(Tail(topics_list), agg_type,
                [agg_map |-> agg_map,
                 reloads |-> acc.reloads + (IF miss THEN 1 ELSE 0),
                 topic_ids |-> IF Resolves(topic_id)
                               THEN Append(acc.topic_ids, topic_id)
                               ELSE acc.topic_ids,
                 id_name_map |-> IF Resolves(topic_id)
                                 THEN Put(acc.id_name_map, topic_id, topic)
                                 ELSE acc.id_name_map])

\* The early return as it would be if the backend were queried regardless.
RangeQueriesRegardless(topic_ids) == 1

\* if not topic_ids: return results -- else the backend is queried, once.
RangeQueries(topic_ids) == IF topic_ids = <<>> THEN 0 ELSE 1

\* meta_tid as it would be if a query of several topics took the metadata of
\* its first topic.
MetaTidOfFirstTopic(topics_list, agg_type, topic_ids) ==
    IF agg_type # "" /\ ~MultiTopicQuery(topics_list)
    THEN Get(topic_id_map, Lower(topics_list[Len(topics_list)]), None)
    ELSE topic_ids[1]

\* meta_tid as it would be if it were always the id the query resolved to.
MetaTidOfResolvedId(topics_list, agg_type, topic_ids) ==
    IF MultiTopicQuery(topics_list) THEN None ELSE topic_ids[1]

\* meta_tid: the id whose cached metadata goes with the result.
MetaTid(topics_list, agg_type, topic_ids) ==
    IF MultiTopicQuery(topics_list) THEN None
    ELSE IF agg_type # ""
    THEN Get(topic_id_map, Lower(topics_list[Len(topics_list)]), None)
    ELSE topic_ids[1]

\* The result mapping built from what the backend returned.
Assemble(topics_list, agg_type, topic_ids, values) ==
    LET multi    == MultiTopicQuery(topics_list)
        first    == IF DOMAIN values = {} THEN <<>>
                    ELSE values[CHOOSE n \in DOMAIN values : TRUE]
        nonempty == DOMAIN values # {} /\ (multi \/ first # <<>>)
    IN  IF nonempty
        THEN [has_values |-> TRUE, has_metadata |-> TRUE, single |-> ~multi,
              values |-> IF multi THEN <<>> ELSE first,
              by_name |-> IF multi THEN values ELSE EmptyMap,
              metadata |-> Get(topic_meta,
                               MetaTid(topics_list, agg_type, topic_ids),
                               EmptyMeta)]
        ELSE [has_values |-> FALSE, has_metadata |-> FALSE, single |-> FALSE,
              values |-> <<>>, by_name |-> EmptyMap, metadata |-> EmptyMeta]

\* A backend that serves the statement it is given.
Healthy ==
    [cursor_ok |-> TRUE, connect |-> "ok", new_cursor_ok |-> TRUE,
     execute_ok |-> TRUE]

\* The select as it would be if a handle without a connection borrowed the
\* connection of the background handle.
SelectBorrowing(d) ==
    IF d.connection # None THEN [d |-> d, made |-> FALSE]
    ELSE [d |-> [d EXCEPT !.connection = bg.connection], made |-> FALSE]

\* DbDriver.select(query, args) on a handle: a cursor is made, on a first
\* connection when the handle has none; a select leaves nothing pending.
Select(d) ==
    LET r == Cursor(d, Healthy)
    IN  [d |-> [r.d EXCEPT !.txn = EmptyStore], made |-> r.made]

\* query_historian(topic, agg_type=..., agg_period=AggPeriod, order=...)
QueryHistorian(topics_list, agg_type, order, with_empty) ==
    /\ pc # "setup"
    /\ \E r \in {ResolveTopics(topics_list, agg_type,
                    [agg_map |-> agg_topic_id_map, reloads |-> 0,
                     topic_ids |-> <<>>, id_name_map |-> EmptyMap])} :
       \E values \in {IF RangeQueries(r.topic_ids) = 0 THEN EmptyMap
                      ELSE BackendQuery(r.topic_ids, r.id_name_map,
                                        Lower(agg_type), order, with_empty)} :
       \E res \in {Assemble(topics_list, agg_type, r.topic_ids, values)} :
       \E s \in {IF r.reloads > 0 \/ RangeQueries(r.topic_ids) > 0
                 THEN Select(main) ELSE [d |-> main, made |-> FALSE]} :
           /\ agg_topic_id_map' = r.agg_map
           /\ main' = s.d
           /\ connects' = IF s.made THEN connects + 1 ELSE connects
           /\ q' = [NoQuery EXCEPT
                       !.called = TRUE, !.op = "query_historian",
                       !.topics = topics_list, !.agg_type = agg_type,
                       !.topic_ids = r.topic_ids,
                       !.id_name_map = r.id_name_map,
                       !.reloads = r.reloads,
                       !.queries = RangeQueries(r.topic_ids),
                       !.backend = values, !.has_values = res.has_values,
                       !.has_metadata = res.has_metadata,
                       !.single = res.single, !.values = res.values,
                       !.by_name = res.by_name, !.metadata = res.metadata]
    /\ UNCHANGED <<colocated, topic_id_map, topic_name_map, topic_meta, store,
                   agg_topics, agg_data, bg, idSeq, taken, pc, remaining, cur,
                   published, exc, log, batch, prevRec, entry, call, agent>>

\* The aggregation agent configures an aggregate of a topic: the row is
\* committed to the aggregate-topics table.
CreateAggTopic(name) ==
    /\ pc # "setup"
    /\ \A r \in agg_topics : Lower(r.name) # Lower(name)
    /\ agg_topics' = agg_topics \cup
            {[id |-> Cardinality(agg_topics) + 1, name |-> name,
              agg_type |-> "avg", agg_period |-> AggPeriod]}
    /\ q' = NoQuery
    /\ UNCHANGED <<colocated, topic_id_map, topic_name_map, topic_meta,
                   agg_topic_id_map, store, agg_data, bg, connects, idSeq,
                   taken, pc, remaining, cur, published, exc, log, batch,
                   prevRec, entry,
                   main, call, agent>>

\* The aggregation agent stores one computed aggregate of a configured
\* aggregate topic; the row is committed at once.
AggregateCollected(agg_id) ==
    /\ agg_id \in {r.id : r \in agg_topics}
    /\ agg_data = <<>>
    /\ agg_data' = Append(agg_data, <<50, agg_id, JsonDumps(7)>>)
    /\ q' = NoQuery
    /\ UNCHANGED <<colocated, topic_id_map, topic_name_map, topic_meta,
                   agg_topic_id_map, store, agg_topics, bg, connects, idSeq,
                   taken, pc, remaining, cur, published, exc, log, batch,
                   prevRec, entry,
                   main, call, agent>>

Orders == {"FIRST_TO_LAST", "LAST_TO_FIRST"}

\* The topic argument of a query: one name, or a list of up to two names.
TopicLists ==
    {<<>>} \cup {<<n>> : n \in Names} \cup
    {l \in Names \X Names : l[1] # l[2]}

\* The caller of query_historian has its result.
QueryReturn ==
    /\ q.called
    /\ q' = NoQuery
    /\ UNCHANGED <<colocated, topic_id_map, topic_name_map, topic_meta,
                   agg_topic_id_map, store, agg_topics, agg_data, bg, connects,
                   idSeq, taken, pc, remaining, cur, published, exc, log, batch,
                   prevRec, entry,
                   main, call, agent>>

\* The query context and the aggregation agent, each taking its step when
\* the publish context has just ended an invocation.
Query ==
    \/ \E topics_list \in TopicLists, agg_type \in {"", "AVG"}, order \in Orders,
          with_empty \in BOOLEAN :
            /\ pc = "return"
            /\ ~q.called
            /\ QueryHistorian(topics_list, agg_type, order, with_empty)
    \/ QueryReturn
    \/ \E name \in {"A"} : pc = "return" /\ ~q.called /\ CreateAggTopic(name)
    \/ \E agg_id \in {1} : pc = "return" /\ ~q.called /\ AggregateCollected(agg_id)

Next ==
    \/ HistorianSetup
    \/ Publish
    \/ ConnectionClosed

Spec == Init /\ [][Next]_vars

\* query_topic_list(): answered from the cache.
QueryTopicListCall ==
    /\ pc # "setup"
    /\ q' = [NoQuery EXCEPT !.called = TRUE, !.op = "query_topic_list",
                            !.topic_list = QueryTopicList]
    /\ UNCHANGED <<colocated, topic_id_map, topic_name_map, topic_meta,
                   agg_topic_id_map, store, agg_topics, agg_data, bg, main,
                   connects, idSeq, taken, pc, remaining, cur, published, exc,
                   log, batch, prevRec, entry, call, agent>>

\* query_topics_metadata(topics) for a list of names: each name the cache has
\* an id for, with topic_meta.get(topic_id), which is None (is_none) when the
\* id has no snapshot.
QueryTopicsMetadata(topics) ==
    LET IdOf(n) == Get(topic_id_map, Lower(n), None)
    IN  [n \in {topics[i] : i \in {j \in 1 .. Len(topics) :
                                       Resolves(IdOf(topics[j]))}} |->
            [is_none |-> IdOf(n) \notin DOMAIN topic_meta,
             meta |-> Get(topic_meta, IdOf(n), EmptyMeta)]]

QueryTopicsMetadataCall(topics) ==
    /\ pc # "setup"
    /\ q' = [NoQuery EXCEPT !.called = TRUE, !.op = "query_topics_metadata",
                            !.topics = topics,
                            !.topics_meta = QueryTopicsMetadata(topics)]
    /\ UNCHANGED <<colocated, topic_id_map, topic_name_map, topic_meta,
                   agg_topic_id_map, store, agg_topics, agg_data, bg, main,
                   connects, idSeq, taken, pc, remaining, cur, published, exc,
                   log, batch, prevRec, entry, call, agent>>

\* A topic pattern: the name it matches whatever the case, or every name.
Patterns == {"a", "b", "*"}

\* DbDriver.query_topics_by_pattern(topic_pattern): name.lower() -> id of the
\* rows of the topics table whose name matches.
TopicsByPattern(t, topic_pattern) ==
    LET all == GetTopicIdMap(t)
    IN  [k \in {x \in DOMAIN all : topic_pattern \in {"*", x}} |-> all[k]]

\* query_topics_by_pattern(topic_pattern): asked of the backend through the
\* handle of the query context.
QueryTopicsByPatternCall(topic_pattern) ==
    /\ pc # "setup"
    /\ \E s \in {Select(main)} :
           /\ main' = s.d
           /\ connects' = IF s.made THEN connects + 1 ELSE connects
    /\ q' = [NoQuery EXCEPT !.called = TRUE, !.op = "query_topics_by_pattern",
                            !.by_pattern = TopicsByPattern(store, topic_pattern)]
    /\ UNCHANGED <<colocated, topic_id_map, topic_name_map, topic_meta,
                   agg_topic_id_map, store, agg_topics, agg_data, bg, idSeq,
                   taken, pc, remaining, cur, published, exc, log, batch,
                   prevRec, entry, call, agent>>

\* DbDriver.get_agg_topics(): (name, agg_type, agg_period) of every configured
\* aggregate topic.
GetAggTopics == {<<r.name, r.agg_type, r.agg_period>> : r \in agg_topics}

\* query_aggregate_topics(): asked of the backend through the handle of the
\* query context.
QueryAggregateTopicsCall ==
    /\ pc # "setup"
    /\ \E s \in {Select(main)} :
           /\ main' = s.d
           /\ connects' = IF s.made THEN connects + 1 ELSE connects
    /\ q' = [NoQuery EXCEPT !.called = TRUE, !.op = "query_aggregate_topics",
                            !.agg_list = GetAggTopics]
    /\ UNCHANGED <<colocated, topic_id_map, topic_name_map, topic_meta,
                   agg_topic_id_map, store, agg_topics, agg_data, bg, idSeq,
                   taken, pc, remaining, cur, published, exc, log, batch,
                   prevRec, entry, call, agent>>

\* The publish context against a backend whose connection stays up: a
\* statement or the commit may still be refused.
SteadyStmtEnvs ==
    {e \in StmtEnvs : e.cursor_ok /\ e.connect = "raises" /\ e.new_cursor_ok}

SteadyEndEnvs == {e \in EndEnvs : e.rollback_ok /\ e.discards}

SteadyPublish ==
    \/ \E n \in 0 .. (MaxSteadyRecords - taken) : BeginPublish(n)
    \/ \E topic \in Names, meta \in Metas : NextRecord(topic, meta)
    \/ \E e \in SteadyStmtEnvs, pick \in RowIdPicks : InsertTopicStep(e, pick)
    \/ CacheTopicId
    \/ \E e \in SteadyStmtEnvs : UpdateTopicStep(e)
    \/ KeepTopic
    \/ \E e \in SteadyStmtEnvs : WriteMetaStep(e)
    \/ CacheMetaStep
    \/ SkipMeta
    \/ \E e \in SteadyStmtEnvs : InsertDataStep(e)
    \/ DataRefusedStep
    \/ \E e \in SteadyEndEnvs : CommitStep(e)
    \/ NothingPublished
    \/ \E e \in SteadyEndEnvs : Handler(e)
    \/ Return

NextQuery ==
    \/ HistorianSetup
    \/ SteadyPublish
    \/ Query

QuerySpec == Init /\ [][NextQuery]_vars

\* The operations of the query context, each of which may run at any point of
\* an invocation of publish_to_historian.
QueryContext ==
    \/ \E topic \in Names, agg_type \in {"", "AVG"} :
          QueryHistorian(<<topic>>, agg_type, "FIRST_TO_LAST", FALSE)
    \/ QueryTopicListCall
    \/ \E topic \in Names : QueryTopicsMetadataCall(<<topic>>)
    \/ \E topic_pattern \in Patterns : QueryTopicsByPatternCall(topic_pattern)
    \/ QueryAggregateTopicsCall
    \/ \E name \in {"A"} : pc = "idle" /\ CreateAggTopic(name)

NextContext ==
    \/ HistorianSetup
    \/ SteadyPublish
    \/ QueryContext

ContextSpec == Init /\ [][NextContext]_vars

\* ------------------------------------------ DbDriver called directly

\* What a direct call on the handle leaves alone.
DriverFrame ==
    UNCHANGED <<colocated, topic_id_map, topic_name_map, topic_meta,
                agg_topic_id_map, agg_topics, agg_data, main, idSeq, taken, pc,
                remaining, cur, published, exc, log, batch, prevRec, entry, q, agent>>

\* cursor()
DriverCursor(e) ==
    /\ \E r \in {Cursor(bg, e)} :
           /\ bg' = r.d
           /\ connects' = connects + (IF r.made THEN 1 ELSE 0)
           /\ call' = [NoCall EXCEPT !.op = "cursor", !.was = bg,
                          !.cursor_ok = e.cursor_ok,
                          !.raised = r.raised, !.asked = r.asked,
                          !.made = r.made, !.cursor = r.raised = "None",
                          !.handed = r.raised = "None"]
    /\ UNCHANGED store
    /\ DriverFrame

\* execute_stmt(stmt, args) for one data row.
DriverExecuteStmt(e) ==
    /\ Len(bg.txn.data) < MaxRecords
    /\ \E r \in {ExecuteStmtClosing(bg, e,
                    Stmt("insert_data", 1, "", JsonDumps(1),
                         100 + Len(bg.txn.data)))} :
           /\ bg' = r.d
           /\ connects' = connects + (IF r.made THEN 1 ELSE 0)
           /\ call' = [NoCall EXCEPT !.op = "execute_stmt", !.was = bg,
                          !.cursor_ok = e.cursor_ok,
                          !.execute_ok = e.execute_ok, !.close = e.close,
                          !.raised = r.raised, !.asked = r.asked,
                          !.made = r.made, !.cursor = r.cursor,
                          !.close_called = r.close_called,
                          !.handed = r.handed]
    /\ UNCHANGED store
    /\ DriverFrame

\* select(query, args, fetch_all)
DriverSelect(e, fetch_all) ==
    /\ \E r \in {SelectClosing(bg, e, fetch_all)} :
           /\ bg' = r.d
           /\ connects' = connects + (IF r.made THEN 1 ELSE 0)
           /\ call' = [NoCall EXCEPT !.op = "select", !.was = bg,
                          !.cursor_ok = e.cursor_ok,
                          !.execute_ok = e.execute_ok, !.close = e.close,
                          !.fetch_all = fetch_all,
                          !.raised = r.raised, !.asked = r.asked,
                          !.made = r.made, !.cursor = r.cursor,
                          !.close_called = r.close_called,
                          !.handed = r.handed]
    /\ UNCHANGED store
    /\ DriverFrame

\* commit()
DriverCommit(e) ==
    /\ \E c \in {Commit(bg, e)} :
           /\ bg' = c.d
           /\ store' = IF c.committed THEN c.d.txn ELSE store
           /\ call' = [NoCall EXCEPT !.op = "commit", !.was = bg,
                          !.raised = c.raised, !.returned = c.returned]
    /\ UNCHANGED connects
    /\ DriverFrame

\* rollback()
DriverRollback(e) ==
    /\ \E r \in {Rollback(bg, e)} :
           /\ bg' = r.d
           /\ call' = [NoCall EXCEPT !.op = "rollback", !.was = bg,
                          !.raised = r.raised, !.returned = r.returned]
    /\ UNCHANGED <<store, connects>>
    /\ DriverFrame

\* close()
DriverClose ==
    /\ bg' = Close(bg)
    /\ call' = [NoCall EXCEPT !.op = "close", !.was = bg]
    /\ UNCHANGED <<store, connects>>
    /\ DriverFrame

\* A handle on its own, any of its methods called in any order.
NextDriver ==
    \/ \E e \in DriverEnvs : DriverCursor(e)
    \/ \E e \in DriverEnvs : DriverExecuteStmt(e)
    \/ \E e \in DriverEnvs, fetch_all \in BOOLEAN : DriverSelect(e, fetch_all)
    \/ \E e \in EndEnvs : DriverCommit(e)
    \/ \E e \in EndEnvs : DriverRollback(e)
    \/ DriverClose

DriverSpec == Init /\ [][NextDriver]_vars

\* ------------------------------------------ the aggregation agent

\* What the backend may do while the aggregation agent stores an aggregate:
\* its connection may have gone stale, and the insert, the commit and the
\* closing of the cursor may fail.
AgentEnvs ==
    [cursor_ok : BOOLEAN, connect : {"ok"}, new_cursor_ok : {TRUE},
     execute_ok : BOOLEAN, close : CloseOutcomes]

\* insert_aggregate never rolls back.
AgentEndEnvs == {e \in EndEnvs : e.rollback_ok /\ e.discards}

\* The aggregation agent calls insert_aggregate(1, 'avg', '1h', ts, 7, ...) on
\* its own handle.
InsertAggregateCall(e, ec) ==
    /\ Len(agg_data) + Len(agent.pending) < MaxAggregates
    /\ \E r \in {InsertAggregate(agent.d, agent.pending, e, ec,
                    <<50 + Len(agg_data) + Len(agent.pending), 1,
                      JsonDumps(7)>>)} :
           /\ r.made => connects < MaxConnects
           /\ agent' = [d |-> r.d, pending |-> r.pending]
           /\ agg_data' = agg_data \o r.durable
           /\ connects' = connects + (IF r.made THEN 1 ELSE 0)
           /\ call' = [NoCall EXCEPT !.op = "insert_aggregate",
                          !.was = agent.d, !.raised = r.raised,
                          !.returned = r.returned, !.made = r.made,
                          !.execute_ok = e.execute_ok,
                          !.table = AggregateTable("avg", AggPeriod)]
    /\ UNCHANGED <<colocated, topic_id_map, topic_name_map, topic_meta,
                   agg_topic_id_map, store, agg_topics, bg, main, idSeq, taken,
                   pc, remaining, cur, published, exc, log, batch, prevRec,
                   entry, q>>

\* The publish context and the aggregation agent, which may store an
\* aggregate at any point of an invocation of publish_to_historian.
NextAggregate ==
    \/ HistorianSetup
    \/ SteadyPublish
    \/ \E e \in AgentEnvs, ec \in AgentEndEnvs : InsertAggregateCall(e, ec)

AggregateSpec == Init /\ [][NextAggregate]_vars

\* ------------------------------------------------------ publishing: claims

\* The calls of the invocation in progress.
StatementOps ==
    {"insert_topic", "insert_topic_and_meta", "update_topic",
     "update_topic_and_meta", "insert_meta", "update_meta", "insert_data"}

InsertTopicOps == {"insert_topic", "insert_topic_and_meta"}

MetaWritingOps ==
    {"insert_topic_and_meta", "update_topic_and_meta", "insert_meta",
     "update_meta"}

StatementRaised == \E i \in DOMAIN log : log[i].op \in StatementOps /\ ~log[i].ok

CallsOf(ops) == {i \in DOMAIN log : log[i].op \in ops}

\* The calls made while the record now in hand was processed.
CallsOfRecord(ops) == {i \in CallsOf(ops) : log[i].k = Len(batch)}

\* The record now in hand was unknown to the cache and its topic was inserted.
TopicInserted == \E i \in CallsOfRecord(InsertTopicOps) : log[i].ok

\* C1: when a statement of a batch raises, the invocation calls no commit,
\* calls rollback, leaves the committed store as it was at entry, and the
\* caller receives the very exception the statement raised.
C1_AsClaimed ==
    (pc = "return" /\ StatementRaised) =>
        /\ CallsOf({"commit"}) = {}
        /\ CallsOf({"rollback"}) # {}
        /\ store = entry.store
        /\ exc.delivered = exc.raised

\* C2: report_all_handled is called only directly after a commit of the same
\* invocation that returned true; it is not called when a statement or the
\* commit raised, or when no record was published; so whenever it is called
\* the data row of every record counted as published is in the committed
\* store.
C2_AsClaimed ==
    /\ \A i \in CallsOf({"report_all_handled"}) :
          /\ i > 1
          /\ log[i - 1].op = "commit"
          /\ log[i - 1].ok
          /\ published > 0
          /\ exc.raised = "None"
          /\ \A c \in CallsOf({"insert_data"}) :
                \E j \in DOMAIN store.data :
                    store.data[j][1] = batch[log[c].k].timestamp
    /\ (pc = "return" /\ (exc.raised # "None" \/ published = 0)) =>
          CallsOf({"report_all_handled"}) = {}

\* C3: after a batch with a record whose key was absent from the cache, the
\* topic-id map holds the key with the id the insert returned, and the store
\* holds exactly one topic row for the key, under that id and under the
\* display name the cache holds.
C3_AsClaimed ==
    pc = "return" =>
        \A i \in CallsOf(InsertTopicOps) :
            log[i].ok =>
                LET key == Lower(batch[log[i].k].topic)
                    rows == {r \in store.topics : Lower(r.name) = key}
                IN  /\ key \in DOMAIN topic_id_map
                    /\ topic_id_map[key] = log[i].id
                    /\ Cardinality(rows) = 1
                    /\ \A r \in rows : /\ r.id = topic_id_map[key]
                                       /\ r.name = topic_name_map[key]

\* C4: topic lookup ignores case.  A record whose name differs only in casing
\* from a cached topic creates no topic and keeps the id; once its topic step
\* is done the cache maps its key to its id and to its own casing, which is
\* the one casing of that topic the topic list returns.
C4_CaseInsensitive ==
    /\ \A k \in DOMAIN topic_id_map : k = Lower(k)
    /\ (pc = "topic" /\ cur.topic_id = None) =>
          /\ \A k \in DOMAIN topic_id_map : Lower(k) # Lower(cur.topic)
          /\ \A n \in QueryTopicList : Lower(n) # Lower(cur.topic)
    /\ pc \in {"meta", "data"} =>
          LET key == Lower(cur.topic)
          IN  /\ key \in DOMAIN topic_id_map
              /\ topic_id_map[key] = cur.topic_id
              /\ topic_name_map[key] = cur.topic
              /\ \A n \in QueryTopicList : Lower(n) = key => n = cur.topic
              /\ CallsOfRecord({"update_topic", "update_topic_and_meta"}) # {}
                    => /\ ~TopicInserted
                       /\ \A i \in CallsOfRecord({"update_topic",
                                                  "update_topic_and_meta"}) :
                              log[i].id = cur.topic_id

\* A record renamed a cached topic to another casing.
C4_Witness ==
    /\ pc = "data"
    /\ cur.topic = "a"
    /\ \E i \in CallsOfRecord({"update_topic", "update_topic_and_meta"}) :
          log[i].ok
    /\ QueryTopicList = {"a"}

\* C5: a record with the topic name and the metadata of the record published
\* just before it issues no statement that writes metadata.
C5_AsClaimed ==
    (/\ pc = "data"
     /\ prevRec.topic = cur.topic
     /\ prevRec.meta = cur.meta) => CallsOfRecord(MetaWritingOps) = {}

\* C6 as stated: a record whose topic is unknown is inserted and cached, and
\* no separate metadata statement is issued for it.
C6_AsClaimed ==
    (pc = "data" /\ TopicInserted) =>
        /\ topic_id_map[Lower(cur.topic)] = cur.topic_id
        /\ CallsOfRecord({"insert_meta", "update_meta"}) = {}

\* C6: a record whose topic is unknown is inserted and cached under the id the
\* insert returned; it never issues the metadata-only update; when metadata is
\* co-located it issues no separate metadata statement at all, and when
\* metadata has its own table it issues the metadata insert exactly when its
\* metadata is not empty.
C6_NewTopicMetaWrite ==
    (pc = "data" /\ TopicInserted) =>
        /\ topic_id_map[Lower(cur.topic)] = cur.topic_id
        /\ \A i \in CallsOfRecord(InsertTopicOps) : log[i].id = cur.topic_id
        /\ CallsOfRecord({"update_meta"}) = {}
        /\ colocated => CallsOfRecord({"insert_meta"}) = {}
        /\ ~colocated =>
              (CallsOfRecord({"insert_meta"}) # {} <=> cur.meta # EmptyMeta)

C6_Witness ==
    /\ pc = "data"
    /\ TopicInserted
    /\ ~colocated
    /\ CallsOfRecord({"insert_meta"}) # {}


\* -------------------------------------------------------- queries: claims

\* The id a name of the last query resolves to, None when it does not.
ResolvedId(n) ==
    IF q.agg_type = "" THEN Get(topic_id_map, Lower(n), None)
    ELSE Get(agg_topic_id_map, <<Lower(n), Lower(q.agg_type), AggPeriod>>, None)

ResolvedNames == SelectSeq(q.topics, LAMBDA n : ResolvedId(n) # None)

\* The one record of the batch just committed.
OneRecordCommitted ==
    /\ pc = "return"
    /\ Len(batch) = 1
    /\ CallsOf({"report_all_handled"}) # {}

\* C7: after a batch of one record is committed, a raw query of that topic
\* alone returns the record's (timestamp, value) pair among its values and
\* the record's metadata as its metadata; the values of a single-topic result
\* are the backend's sequence for that topic as it is.
C7_AsClaimed ==
    /\ (/\ q.called
        /\ OneRecordCommitted
        /\ q.agg_type = ""
        /\ Len(q.topics) = 1
        /\ Lower(q.topics[1]) = Lower(batch[1].topic)) =>
            /\ q.has_values /\ q.has_metadata /\ q.single
            /\ \E i \in DOMAIN q.values :
                  q.values[i] = <<batch[1].timestamp, batch[1].value>>
            /\ q.metadata = batch[1].meta
    /\ (q.called /\ q.single) =>
            /\ DOMAIN q.backend = {q.topics[1]}
            /\ q.values = q.backend[q.topics[1]]

MultiTopicResult ==
    /\ q.called
    /\ MultiTopicQuery(q.topics)
    /\ DOMAIN q.backend # {}

\* C10 as stated: the result of a query of several topics is the mapping from
\* topic name to that topic's sequence itself, with no wrapper and no
\* metadata entry.
C10_AsClaimed ==
    MultiTopicResult => ~q.has_values /\ ~q.has_metadata

\* C10: the result of a query of several topics has the entries 'values' and
\* 'metadata': 'values' is the backend's mapping from topic name to that
\* topic's sequence, and 'metadata' is empty; the metadata of a topic comes
\* with a result only when the query named that one topic.
C10_MultiTopicResultShape ==
    /\ MultiTopicResult =>
          /\ q.has_values /\ q.has_metadata
          /\ ~q.single
          /\ q.by_name = q.backend
          /\ q.metadata = EmptyMeta
    /\ (q.called /\ q.metadata # EmptyMeta) => Len(q.topics) = 1

C10_Witness ==
    /\ MultiTopicResult
    /\ Cardinality(DOMAIN q.by_name) = 2
    /\ Get(topic_meta, q.topic_ids[1], EmptyMeta) = MetaC

\* The raw topic id cached for the name of a single-topic query.
RawIdOfQuery == Get(topic_id_map, Lower(q.topics[1]), None)

\* C11 as stated: a single-topic result carries the cached metadata of the
\* raw topic (of the resolved id for a raw query, of the raw topic with the
\* same key for an aggregate query), and carries no metadata when the
\* aggregate name has no raw topic.
C11_AsClaimed ==
    (q.called /\ q.single) =>
        IF q.agg_type # "" /\ RawIdOfQuery = None
        THEN ~q.has_metadata
        ELSE /\ q.has_metadata
             /\ q.metadata = Get(topic_meta, RawIdOfQuery, EmptyMeta)

\* C11: a single-topic result always has a 'metadata' entry.  It is the
\* cached metadata of the raw topic: of the resolved id for a raw query, of
\* the raw topic with the same key (not of the aggregate id) for an aggregate
\* query; it is the empty mapping when the aggregate name has no raw topic
\* or the raw topic has no cached metadata.
C11_SingleTopicMetadata ==
    (q.called /\ q.single) =>
        /\ q.has_metadata
        /\ q.agg_type = "" => RawIdOfQuery = ResolvedId(q.topics[1])
        /\ q.metadata = Get(topic_meta, RawIdOfQuery, EmptyMeta)
        /\ RawIdOfQuery = None => q.metadata = EmptyMeta

\* An aggregate query whose aggregate id is not the id of its raw topic.
C11_Witness ==
    /\ q.called /\ q.single
    /\ q.agg_type = "AVG"
    /\ RawIdOfQuery # None
    /\ RawIdOfQuery # ResolvedId(q.topics[1])
    /\ q.metadata = MetaC
    /\ Get(topic_meta, ResolvedId(q.topics[1]), EmptyMeta) = EmptyMeta

\* The triple of the i-th name of the query that a step makes.
AggKeyOfNew(i) == <<Lower(q'.topics[i]), Lower(q'.agg_type), AggPeriod>>

\* The names of the query that a step makes whose triple the aggregate map
\* does not hold when their turn comes: the first name missing from the map
\* as it was, and each later name still missing after the reload.
MissedByNew ==
    LET absent == {i \in 1 .. Len(q'.topics) :
                      AggKeyOfNew(i) \notin DOMAIN agg_topic_id_map}
    IN  {i \in absent : \/ \A j \in absent : i <= j
                        \/ AggKeyOfNew(i) \notin DOMAIN agg_topic_id_map'}

\* C12: in a query with an aggregation type, each name whose triple is
\* missing from the aggregate map when its turn comes causes exactly one
\* reload of the map from the backend, after which the lookup is made again:
\* a name whose triple the backend holds is resolved, one still missing is
\* left out of the id list.  A query all of whose triples are cached, and a
\* raw query, reload nothing and leave the map as it was.
C12_AggMapReload ==
    [][(~q.called /\ q'.called) =>
          IF q'.agg_type = ""
          THEN q'.reloads = 0 /\ agg_topic_id_map' = agg_topic_id_map
          ELSE /\ q'.reloads = Cardinality(MissedByNew)
               /\ agg_topic_id_map' =
                     IF MissedByNew = {} THEN agg_topic_id_map
                     ELSE Update(agg_topic_id_map, GetAggTopicMap)
               /\ \A i \in 1 .. Len(q'.topics) :
                     IF AggKeyOfNew(i) \in
                            DOMAIN agg_topic_id_map \cup DOMAIN GetAggTopicMap
                     THEN \E k \in 1 .. Len(q'.topic_ids) :
                             /\ q'.topic_ids[k] =
                                   Update(agg_topic_id_map, GetAggTopicMap)
                                       [AggKeyOfNew(i)]
                             /\ q'.topic_ids[k] \in DOMAIN q'.id_name_map
                     ELSE \A k \in DOMAIN q'.id_name_map :
                             q'.id_name_map[k] # q'.topics[i]]_vars

\* An aggregate topic created after startup resolved on the first query that
\* asked for it, through one reload.
C12_Witness ==
    /\ q.called
    /\ q.agg_type = "AVG"
    /\ q.reloads = 1
    /\ Len(q.topics) = 2
    /\ Len(q.topic_ids) = 1

\* The calls of the invocation that ran on a physical connection: statements
\* that executed, and the commit or rollback made on a held connection.
CallsOnConnection ==
    {i \in DOMAIN log :
        /\ log[i].conn # None
        /\ \/ log[i].op \in StatementOps /\ log[i].ok
           \/ log[i].op \in {"commit", "rollback"}}

\* The data row of the k-th record of the batch is in the committed store.
RecordDurable(k) ==
    \E j \in DOMAIN store.data : store.data[j][1] = batch[k].timestamp

\* C13: the statements of one batch and the commit or rollback that ends it
\* all run on one physical connection, so a batch that was committed has the
\* data rows of all its records whose data insert went through in the store.
C13_AsClaimed ==
    /\ \A i, j \in CallsOnConnection : log[i].conn = log[j].conn
    /\ (pc = "return" /\ CallsOf({"report_all_handled"}) # {}) =>
          \A i \in CallsOf({"insert_data"}) : RecordDurable(log[i].k)

\* C14: commit is called at most once in an invocation.  An invocation that
\* counted a record as published ends in one of two ways: its one commit
\* succeeded, no rollback was called and nothing was raised; or no commit
\* succeeded, rollback was called exactly once and the committed store is as
\* it was at entry.
C14_EndsTransactionOnce ==
    /\ Cardinality(CallsOf({"commit"})) <= 1
    /\ Cardinality(CallsOf({"rollback"})) <= 1
    /\ (pc = "return" /\ published > 0) =>
          IF \E i \in CallsOf({"commit"}) : log[i].ok
          THEN /\ CallsOf({"rollback"}) = {}
               /\ exc.raised = "None"
               /\ store = bg.txn
          ELSE /\ Cardinality(CallsOf({"rollback"})) = 1
               /\ exc.raised # "None"
               /\ store = entry.store

\* The commit raised after records were published, and rollback was called.
C14_Witness ==
    /\ pc = "return"
    /\ published = 2
    /\ \E i \in CallsOf({"commit"}) : ~log[i].ok
    /\ Cardinality(CallsOf({"rollback"})) = 1
    /\ exc.raised = "CommitError"

\* C15: an invocation that ends with no record counted as published, on an
\* empty batch or after data inserts that reported failure without raising,
\* has called neither commit nor rollback and raised nothing; the committed
\* store is as it was at entry and the end of the invocation leaves the
\* handle and its open transaction as the last statement left them.
C15_NothingPublishedFrame ==
    /\ []((pc = "return" /\ published = 0 /\ exc.raised = "None") =>
             /\ CallsOf({"commit", "rollback", "report_all_handled"}) = {}
             /\ exc.delivered = "None"
             /\ store = entry.store)
    /\ [][(pc = "for" /\ remaining = 0 /\ published = 0 /\ pc' # "for") =>
             /\ pc' = "return"
             /\ bg' = bg /\ store' = store /\ log' = log /\ exc' = exc]_vars

\* A batch of records none of which was counted, a topic insert still open in
\* the transaction.
C15_Witness ==
    /\ pc = "return"
    /\ published = 0
    /\ Len(batch) = 2
    /\ exc.raised = "None"
    /\ bg.txn # store

\* The calls of insert_data, counted or not.
DataInsertOps == {"insert_data", "insert_data_refused"}

RecordOps == StatementOps \cup DataInsertOps

\* C16: the records of a batch are processed in the order of the input list.
\* The statements of a record all come before those of the next record; each
\* record has one data insert, which comes after the record's topic and
\* metadata statements; and the commit comes after every statement.
C16_ArrivalOrder ==
    /\ \A i, j \in CallsOf(RecordOps) : i < j => log[i].k <= log[j].k
    /\ \A i \in CallsOf(RecordOps) : log[i].k \in 1 .. Len(batch)
    /\ \A i, j \in CallsOf(DataInsertOps) : i < j => log[i].k < log[j].k
    /\ \A i \in CallsOf(DataInsertOps) :
          \A j \in CallsOf(RecordOps) : j > i => log[j].k > log[i].k
    /\ \A k \in 1 .. Len(batch) :
          (k < Len(batch) \/ pc = "for" \/ (exc.raised = "None" /\ pc = "return"))
             => \E i \in CallsOf(DataInsertOps) : log[i].k = k
    /\ \A c \in CallsOf({"commit"}) : \A i \in CallsOf(RecordOps) : i < c

C16_Witness ==
    /\ pc = "return"
    /\ Len(batch) = 3
    /\ Cardinality(CallsOf({"insert_data"})) = 3
    /\ CallsOf({"commit"}) # {}
    /\ Cardinality(CallsOf(StatementOps)) >= 6

\* The catalog cache as a reload from the committed store would give it.
CacheIsReloadOf(s) ==
    /\ topic_id_map = GetTopicIdMap(s)
    /\ topic_name_map = GetTopicNameMap(s)
    /\ topic_meta = GetTopicMetaMap(s)

\* C19: whenever no publish is in progress, the catalog cache equals what the
\* three map-producing catalog operations return from the committed store.
C19_AsClaimed == pc \in {"idle", "return"} => CacheIsReloadOf(store)

\* ------------------------------------------- the two contexts: claims

\* A step of the query context: it leaves the answer of an operation in q,
\* where every step of the publish context clears q.
QueryStep == q'.called /\ q' # q

TopicMapsUnchanged ==
    /\ topic_id_map' = topic_id_map
    /\ topic_name_map' = topic_name_map
    /\ topic_meta' = topic_meta

\* C17 as stated: no operation of the query context modifies any of the four
\* catalog cache maps.
C17_AsClaimed ==
    [][QueryStep => TopicMapsUnchanged /\ agg_topic_id_map' = agg_topic_id_map]_vars

\* C17: no operation of the query context modifies topic_id_map,
\* topic_name_map or topic_meta, which change only in historian_setup and
\* inside an invocation of publish_to_historian; agg_topic_id_map is changed
\* by query_historian alone, and only by an aggregate query that missed the
\* map and merged the backend's aggregate map into it.
C17_QueryWritesAggMapOnly ==
    [][/\ QueryStep =>
            /\ TopicMapsUnchanged
            /\ agg_topic_id_map' # agg_topic_id_map =>
                  /\ q'.op = "query_historian"
                  /\ q'.agg_type # ""
                  /\ q'.reloads > 0
                  /\ agg_topic_id_map' = Update(agg_topic_id_map, GetAggTopicMap)
       /\ ~TopicMapsUnchanged => pc \notin {"idle", "return"} /\ ~q'.called
       /\ (agg_topic_id_map' # agg_topic_id_map /\ ~QueryStep) => pc = "setup"
      ]_vars

\* An aggregate query made in the middle of an invocation has just merged a
\* newly configured aggregate topic into agg_topic_id_map.
C17_Witness ==
    /\ q.called
    /\ q.op = "query_historian"
    /\ q.agg_type = "AVG"
    /\ q.reloads > 0
    /\ agg_topic_id_map # EmptyMap
    /\ pc \in {"topic", "cache_id", "meta", "data"}
    /\ topic_name_map # EmptyMap

\* The operations of the query context that read the catalog cache.
CacheReads == {"query_historian", "query_topic_list", "query_topics_metadata"}

\* The entry of the catalog cache under a key, as a read finds it.
CacheEntry(key) ==
    [known |-> key \in DOMAIN topic_id_map,
     name |-> Get(topic_name_map, key, NoName),
     meta |-> Get(topic_meta, Get(topic_id_map, key, None), EmptyMeta)]

\* The entry of the record in process as it was when the record was looked up,
\* and as it is when the record is done.
EntryBeforeRecord ==
    [known |-> cur.db_topic_name # NoName, name |-> cur.db_topic_name,
     meta |-> cur.old_meta]

EntryAfterRecord ==
    [known |-> TRUE, name |-> cur.topic,
     meta |-> IF NeedsMetaWrite(cur.old_meta, cur.meta) THEN cur.meta
              ELSE cur.old_meta]

\* C18: a read of the query context made at any point of an invocation of
\* publish_to_historian finds no torn entry: the keys of topic_name_map are
\* the keys of topic_id_map, and the entry of the record in process is the one
\* from before the record or the one from after it.
C18_AsClaimed ==
    (q.called /\ q.op \in CacheReads) =>
        /\ DOMAIN topic_name_map = DOMAIN topic_id_map
        /\ pc \in {"topic", "cache_id", "meta", "data"} =>
              CacheEntry(cur.lowercase_name) \in
                  {EntryBeforeRecord, EntryAfterRecord}

\* C20: the two contexts never share a connection.  The two handles never hold
\* the same physical connection and no call logged by the publish context ran
\* on the connection of main_thread_dbutils; a step of the query context
\* leaves bg_thread_dbutils, its open transaction and the committed store as
\* they are and makes no call of the publish context; every other step leaves
\* main_thread_dbutils as it is.
C20_HandlesNotShared ==
    /\ []((bg.connection # None /\ main.connection # None) =>
              bg.connection # main.connection)
    /\ [](\A i \in DOMAIN log :
              log[i].conn # None => log[i].conn # main.connection)
    /\ [][/\ QueryStep => bg' = bg /\ store' = store /\ log' = log
          /\ ~QueryStep => main' = main
         ]_vars

\* A range query has just run on the connection of main_thread_dbutils while
\* the publish context had statements pending on its own connection.
C20_Witness ==
    /\ q.called
    /\ q.op = "query_historian"
    /\ q.queries = 1
    /\ main.connection # None
    /\ bg.connection # None
    /\ pc = "data"
    /\ bg.txn # store
    /\ Len(log) >= 2

\* ------------------------------------------------------ DbDriver: claims

\* C21 as stated: cursor() returns a cursor or raises ConnectionError, and
\* nothing else.
C21_AsClaimed ==
    call.op = "cursor" => call.raised \in {"None", "ConnectionError"}

\* C21: cursor() returns a cursor, or raises ConnectionError when the connect
\* factory raised or returned nothing (the handle then holds no connection),
\* or lets the error of cursor creation on a connection it has just made go
\* to the caller as it is (the handle then holds that connection).  A failure
\* of cursor creation on the connection it held before is never raised.
C21_CursorOutcomes ==
    call.op = "cursor" =>
        /\ call.raised \in {"None", "ConnectionError", "CursorError"}
        /\ call.raised = "None" <=> call.cursor
        /\ call.raised = "ConnectionError" =>
              call.asked /\ ~call.made /\ bg.connection = None
        /\ call.raised = "CursorError" =>
              call.made /\ bg.connection # None /\
              bg.connection # call.was.connection

\* cursor() has made a second connection for a handle whose connection was
\* closed, and the new connection refused to make a cursor.
C21_Witness ==
    /\ call.op = "cursor"
    /\ call.raised = "CursorError"
    /\ call.was.connection # None
    /\ call.was.closed

Live(d) == d.connection # None /\ ~d.closed

\* C22: cursor() reuses the connection it holds when that connection is live
\* and makes a cursor, without asking the connect factory; it asks the factory
\* only when it holds no connection, the connection is marked closed, or the
\* connection failed to make a cursor; a factory that failed is not asked
\* again, and the handle is left without a connection; a connection the
\* factory made is a new one and replaces the one held.
C22_ReuseOrReconnectOnce ==
    call.op = "cursor" =>
        /\ (Live(call.was) /\ call.cursor_ok) =>
              ~call.asked /\ bg = call.was /\ call.raised = "None"
        /\ call.asked => ~Live(call.was) \/ ~call.cursor_ok
        /\ call.made => call.asked
        /\ (call.asked /\ ~call.made) =>
              bg.connection = None /\ call.raised = "ConnectionError"
        /\ call.made =>
              bg.connection = connects /\ bg.connection # call.was.connection

\* cursor() has reused a connection that has a statement pending.
C22_Witness ==
    /\ call.op = "cursor"
    /\ ~call.asked
    /\ Live(call.was)
    /\ bg = call.was
    /\ bg.txn.data # <<>>
    /\ bg.txn # store

\* C23: commit() and rollback() on a handle with no open connection (never
\* connected, last connection attempt failed, or closed) return False, raise
\* nothing and leave the handle as it was; with an open connection they
\* return True unless the backend raises.
C23_AsClaimed ==
    call.op \in {"commit", "rollback"} =>
        /\ ~Live(call.was) =>
              ~call.returned /\ call.raised = "None" /\ bg = call.was
        /\ (Live(call.was) /\ call.raised = "None") => call.returned

\* C29: when cursor() has raised ConnectionError in an invocation of
\* publish_to_historian, the handle holds no connection; the rollback of the
\* error handler is made on no connection and raises nothing, and the caller
\* is given the ConnectionError; the next statement on the handle gets a new
\* connection or fails to connect again.
C29_ConnectionErrorDelivered ==
    /\ []((pc = "except" /\ exc.raised = "ConnectionError") =>
              bg.connection = None)
    /\ []((pc = "return" /\ exc.raised = "ConnectionError") =>
              /\ exc.delivered = "ConnectionError"
              /\ \E i \in DOMAIN log :
                    /\ log[i].op = "rollback"
                    /\ log[i].conn = None
                    /\ log[i].ok)
    /\ [][(bg.connection = None /\ pc \in {"topic", "meta", "data"}
              /\ Len(log') > Len(log)
              /\ log'[Len(log')].op \in StatementOps) =>
             \/ bg'.connection = None /\ exc'.raised = "ConnectionError"
             \/ bg'.connection = connects + 1 /\ connects' = connects + 1
         ]_vars

\* A batch of two records: the first reached its data insert, the second
\* could not get a connection, and the caller has the ConnectionError.
C29_Witness ==
    /\ pc = "return"
    /\ exc.raised = "ConnectionError"
    /\ exc.delivered = "ConnectionError"
    /\ bg.connection = None
    /\ Len(batch) = 2
    /\ \E i \in DOMAIN log : log[i].op = "insert_data" /\ log[i].ok

\* C27: no cursor is left open by a statement.  A cursor made for select or
\* execute_stmt and not handed to the caller has had close() called on it;
\* the cursor is handed to the caller by select with fetch_all false alone,
\* when nothing was raised; and when the statement of a select raises, the
\* cursor is closed and the caller gets the statement's error.
C27_AsClaimed ==
    call.op \in {"select", "execute_stmt"} =>
        /\ (call.cursor /\ ~call.handed) => call.close_called
        /\ call.handed <=>
              (call.op = "select" /\ ~call.fetch_all /\ call.raised = "None")
        /\ (call.op = "select" /\ call.cursor /\ ~call.execute_ok) =>
              call.close_called /\ call.raised = "StatementError"

\* ------------------------------------------- publishing: catalog claims

\* C24: a topic id is immutable once assigned: a key of topic_id_map keeps
\* the id first cached for it, and no two keys are mapped to the same id.
C24_AsClaimed ==
    /\ [](\A k1, k2 \in DOMAIN topic_id_map :
              topic_id_map[k1] = topic_id_map[k2] => k1 = k2)
    /\ [][\A k \in DOMAIN topic_id_map :
              k \in DOMAIN topic_id_map' /\ topic_id_map'[k] = topic_id_map[k]
         ]_vars

\* The invocation that has just ended is the first to take records; every
\* call it made succeeded on the first connection and it committed.
FirstBatchCommitted ==
    /\ pc = "return"
    /\ exc.raised = "None"
    /\ batch # <<>>
    /\ taken = Len(batch)
    /\ connects = 1
    /\ \A i \in DOMAIN log : log[i].ok /\ log[i].op # "insert_data_refused"
    /\ CallsOf({"commit"}) # {}

\* C25: after a committed batch, in a run where every batch committed, the
\* cached snapshot topic_meta[id] of each topic of the batch equals the
\* metadata the store holds for that id (no snapshot and no stored metadata
\* both counting as the empty metadata).
C25_AsClaimed ==
    FirstBatchCommitted =>
        \A k \in DOMAIN batch :
            LET id == topic_id_map[Lower(batch[k].topic)]
            IN  Get(topic_meta, id, EmptyMeta) =
                    Get(GetTopicMetaMap(store), id, EmptyMeta)

\* C26: every committed data row carries a topic id that a committed row of
\* the topics table has.
C26_AsClaimed ==
    \A i \in DOMAIN store.data :
        \E r \in store.topics : r.id = store.data[i][2]

\* ------------------------------------------ the aggregation agent: claims

\* A step in which insert_aggregate was called.
InsertAggregateStep ==
    /\ call'.op = "insert_aggregate"
    /\ call' # call \/ agent' # agent \/ agg_data' # agg_data

\* C28: insert_aggregate names the table agg_type + '_' + period; when it
\* returns True it has raised nothing and has committed; whenever it has
\* committed, its row is the last committed row of that table and its
\* connection has nothing pending; when it does not return True it has
\* raised; it leaves bg_thread_dbutils, the open transaction of the publish
\* context and the committed historian tables as they are, and no step of
\* the publish context commits an aggregate row.
C28_AggregateCommittedAlone ==
    [][/\ InsertAggregateStep =>
            /\ call'.table = <<"avg", "_", "1h">>
            /\ bg' = bg /\ store' = store /\ log' = log
            /\ call'.returned =>
                  call'.raised = "None" /\ agg_data' # agg_data
            /\ agg_data' # agg_data =>
                  /\ agent'.pending = <<>>
                  /\ Len(agg_data') \in
                        {Len(agg_data) + 1,
                         Len(agg_data) + Len(agent.pending) + 1}
                  /\ SubSeq(agg_data', 1, Len(agg_data)) = agg_data
                  /\ agg_data'[Len(agg_data')] =
                        <<50 + Len(agg_data) + Len(agent.pending), 1,
                          JsonDumps(7)>>
            /\ ~call'.returned => call'.raised # "None"
       /\ ~InsertAggregateStep => agg_data' = agg_data /\ agent' = agent
      ]_vars

\* An aggregate has just been committed while the publish context had a
\* statement pending in its own transaction, which is still pending.
C28_Witness ==
    /\ call.op = "insert_aggregate"
    /\ call.returned
    /\ Len(agg_data) = 1
    /\ agent.pending = <<>>
    /\ agent.d.connection # None
    /\ pc = "data"
    /\ bg.txn # store
    /\ store = EmptyStore

====
